---- MODULE Spec2Model ----
(***************************************************************************)
(* Model of the tournament workspace of BestLim: the standings engine      *)
(* (pointsConfig, standingsMap, standings) and the handlers that change    *)
(* the tournament record (handleScoreChange, handleSaveResult,             *)
(* generateSchedule, the security modal), and of the delete dialog of the  *)
(* tournament list (ManageTournamentList).                                 *)
(*                                                                         *)
(* Numbers.  JavaScript numbers are modelled as exact integers.  A volume  *)
(* of overs is kept in units of 1/VolScale over, so that whole + balls/6   *)
(* and a one-decimal overs limit are exact; a rate is an exact reduced     *)
(* fraction [n, d].  The rounding of the doubles is modelled for the sums  *)
(* of the volumes (DoubleVolumes), where the order of the additions        *)
(* decides the last bit; the rates are not rounded.                        *)
(* Strings that the code parses are sequences of one-character strings.    *)
(***************************************************************************)
EXTENDS Integers, Sequences, FiniteSets, TLC

VARIABLES
    teams,              \* tournament.teams: sequence of Team records
    stadiums,           \* tournament.stadiums: sequence of venue ids
    matches,            \* tournament.matches: sequence of Match records
    isLocked,           \* tournament.isLocked
    logs,               \* tournament.logs: sequence of action strings, newest first
    config,             \* tournament.config: oversPerMatch, pointsForWin/Draw/Loss
    resultForm,         \* useState resultForm
    editingMatchId,     \* useState editingMatchId
    showSecurityModal,  \* useState showSecurityModal (type or NULL)
    securityInput,      \* useState securityInput
    edits,              \* number of handleScoreChange calls so far
    standingsMap,       \* useMemo standingsMap of the last render
    standings,          \* useMemo standings of the last render (ranked team ids)
    tournaments,        \* prop tournaments of ManageTournamentList: [id, name] records
    deleteConfirmId,    \* useState deleteConfirmId of ManageTournamentList (id or NULL)
    confirmName         \* useState confirmName of ManageTournamentList

tournVars == <<teams, stadiums, matches, isLocked, logs, config>>
uiVars == <<resultForm, editingMatchId, showSecurityModal, securityInput, edits>>
memoVars == <<standingsMap, standings>>
listVars == <<tournaments, deleteConfirmId, confirmName>>
vars == <<tournVars, uiVars, memoVars, listVars>>

\* undefined for a string-valued field (resultType, winnerId, editingMatchId)
NULL == "undefined"

\* A number that may be missing is a sequence: <<>> is undefined (or NaN, which
\* the code treats alike: both are falsy and never equal to a number), <<n>> is n.
Undef == <<>>
NaN == <<>>
Num(n) == <<n>>

(***************************************************************************)
(* Bounds of the model.                                                    *)
(***************************************************************************)
MaxMatches == 2
MaxRuns == 2
MaxTeams == 3
MaxEdits == 2
MaxListed == 2
MaxPairs == 2
MaxLogs == 3

(***************************************************************************)
(* Small helpers.                                                          *)
(***************************************************************************)
Range(s) == {s[i] : i \in DOMAIN s}

Abs(x) == IF x < 0 THEN -x ELSE x

RECURSIVE GCD(_, _)
GCD(a, b) == IF b = 0 THEN a ELSE GCD(b, a % b)

\* x || d for a possibly missing number: undefined, NaN and 0 are falsy
OrElse(x, d) == IF x = Undef \/ x[1] = 0 THEN d ELSE x[1]

\* x || d for a number
NumOr(x, d) == IF x = 0 THEN d ELSE x

(***************************************************************************)
(* Exact fractions for the rates.                                          *)
(***************************************************************************)
VolScale == 30

Frac(n, d) ==
    LET g == GCD(Abs(n), d)
    IN  [n |-> n \div g, d |-> d \div g]

Zero == [n |-> 0, d |-> 1]

FracSub(a, b) == Frac(a.n * b.d - b.n * a.d, a.d * b.d)

\* the sign of a - b
FracCmp(a, b) ==
    LET x == a.n * b.d - b.n * a.d
    IN  IF x > 0 THEN 1 ELSE IF x < 0 THEN -1 ELSE 0

(***************************************************************************)
(* parseInt / parseFloat on a string given as a sequence of characters.    *)
(***************************************************************************)
Digits == <<"0", "1", "2", "3", "4", "5", "6", "7", "8", "9">>

IsDigit(c) == c \in Range(Digits)

DigitVal(c) == (CHOOSE i \in DOMAIN Digits : Digits[i] = c) - 1

RECURSIVE SkipWs(_)
SkipWs(s) == IF s # <<>> /\ Head(s) = " " THEN SkipWs(Tail(s)) ELSE s

RECURSIVE DigitsPrefix(_)
DigitsPrefix(s) ==
    IF s # <<>> /\ IsDigit(Head(s)) THEN <<Head(s)>> \o DigitsPrefix(Tail(s)) ELSE <<>>

RECURSIVE DigitsToNat(_, _)
DigitsToNat(ds, acc) ==
    IF ds = <<>> THEN acc ELSE DigitsToNat(Tail(ds), 10 * acc + DigitVal(Head(ds)))

Drop(s, k) == SubSeq(s, k + 1, Len(s))

\* parseInt(s): leading blanks, optional sign, longest run of digits; NaN if none
parseInt(s) ==
    LET t == SkipWs(s)
        signed == t # <<>> /\ Head(t) \in {"-", "+"}
        body == IF signed THEN Tail(t) ELSE t
        ds == DigitsPrefix(body)
        sgn == IF signed /\ Head(t) = "-" THEN -1 ELSE 1
    IN  IF ds = <<>> THEN NaN ELSE Num(sgn * DigitsToNat(ds, 0))

\* parseFloat(s) in units of 1/VolScale: as parseInt, then an optional point
\* and one fractional digit (the inputs of the model carry at most one)
parseFloat(s) ==
    LET t == SkipWs(s)
        signed == t # <<>> /\ Head(t) \in {"-", "+"}
        body == IF signed THEN Tail(t) ELSE t
        ds == DigitsPrefix(body)
        rest == Drop(body, Len(ds))
        fs == IF rest # <<>> /\ Head(rest) = "." THEN DigitsPrefix(Tail(rest)) ELSE <<>>
        sgn == IF signed /\ Head(t) = "-" THEN -1 ELSE 1
        whole == DigitsToNat(ds, 0) * VolScale
        frac == IF fs = <<>> THEN 0 ELSE DigitVal(Head(fs)) * (VolScale \div 10)
    IN  IF ds = <<>> /\ fs = <<>> THEN NaN ELSE Num(sgn * (whole + frac))

\* Number.prototype.toString of an integer
RECURSIVE NatToString(_)
NatToString(n) ==
    IF n < 10 THEN <<Digits[n + 1]>> ELSE NatToString(n \div 10) \o <<Digits[(n % 10) + 1]>>

toString(n) == IF n < 0 THEN <<"-">> \o NatToString(-n) ELSE NatToString(n)

HundredBalls == <<"1", "0", "0", " ", "B", "a", "l", "l", "s">>

(***************************************************************************)
(* The standings engine.                                                   *)
(***************************************************************************)
DefaultOvers == <<"2", "0">>

isHundred(cfg) == cfg.oversPerMatch = HundredBalls

\* mutant: the ball-count regime does not override the configured points
pointsConfig_Configured(cfg) ==
    [win  |-> NumOr(cfg.pointsForWin, 2),
     draw |-> NumOr(cfg.pointsForDraw, 1),
     loss |-> NumOr(cfg.pointsForLoss, 0)]

pointsConfig(cfg) ==
    [win  |-> IF isHundred(cfg) THEN 4 ELSE NumOr(cfg.pointsForWin, 2),
     draw |-> IF isHundred(cfg) THEN 2 ELSE NumOr(cfg.pointsForDraw, 1),
     loss |-> IF isHundred(cfg) THEN 0 ELSE NumOr(cfg.pointsForLoss, 0)]

\* mutant: the balls are read as a decimal digit of the overs ("18.3")
toDecimalOvers_Tenths(whole, balls) == whole * VolScale + balls * (VolScale \div 10)

\* whole + balls / 6, in units of 1/VolScale over
toDecimalOvers(whole, balls) == whole * VolScale + balls * (VolScale \div 6)

\* oversPerMatch || '20': the empty string is falsy
OversString(cfg) == IF cfg.oversPerMatch = <<>> THEN DefaultOvers ELSE cfg.oversPerMatch

\* maxOvers of standingsMap, in units of 1/VolScale over
maxOvers(cfg) ==
    IF isHundred(cfg) THEN 100 * VolScale
    ELSE OrElse(parseFloat(OversString(cfg)), 20 * VolScale)

\* mutant: the counters of the team record are spread and not reset
InitStats_Spread(t) ==
    [id |-> t.id,
     matchesPlayed |-> t.matchesPlayed, matchesWon |-> 0, matchesLost |-> 0,
     matchesDrawn |-> 0, matchesTie |-> 0, matchesNR |-> 0,
     totalPoints |-> 0, runsScored |-> t.runsScored, oversFaced |-> 0,
     runsConceded |-> 0, oversBowled |-> 0, nrr |-> Zero,
     actualPoints |-> 0, wicketsTaken |-> 0,
     scoringRate |-> Zero, economyRate |-> Zero]

\* the accumulator of one team: { ...t, matchesPlayed: 0, ... }
InitStats(t) ==
    [id |-> t.id,
     matchesPlayed |-> 0, matchesWon |-> 0, matchesLost |-> 0,
     matchesDrawn |-> 0, matchesTie |-> 0, matchesNR |-> 0,
     totalPoints |-> 0, runsScored |-> 0, oversFaced |-> 0,
     runsConceded |-> 0, oversBowled |-> 0, nrr |-> Zero,
     actualPoints |-> 0, wicketsTaken |-> 0,
     scoringRate |-> Zero, economyRate |-> Zero]

TeamIds(ts) == {ts[i].id : i \in DOMAIN ts}

TeamById(ts, id) == ts[CHOOSE i \in DOMAIN ts : ts[i].id = id]

\* mutant: no all-out rule, the recorded overs are always taken
VolFaced_Recorded(cfg, wickets, oversWhole, balls) ==
    IF isHundred(cfg) THEN OrElse(oversWhole, 0) * VolScale
    ELSE toDecimalOvers(OrElse(oversWhole, 0), OrElse(balls, 0))

\* t1VolFaced / t2VolFaced for a side with the given wickets, overs and balls
VolFaced(cfg, wickets, oversWhole, balls) ==
    IF isHundred(cfg)
    THEN (IF wickets = Num(10) THEN 100 ELSE OrElse(oversWhole, 0)) * VolScale
    ELSE IF wickets = Num(10) THEN maxOvers(cfg)
         ELSE toDecimalOvers(OrElse(oversWhole, 0), OrElse(balls, 0))

\* the statements of the forEach body that touch one team object
Credit(stats, id, played, won, points, runs, faced, conceded, bowled, wkts) ==
    [stats EXCEPT ![id] =
        [@ EXCEPT !.matchesPlayed = @ + played,
                  !.matchesWon = @ + won,
                  !.actualPoints = @ + points,
                  !.runsScored = @ + runs,
                  !.oversFaced = @ + faced,
                  !.runsConceded = @ + conceded,
                  !.oversBowled = @ + bowled,
                  !.wicketsTaken = @ + wkts]]

\* mutant: the wickets a side lost are credited to that side
ApplyMatch_OwnWickets(stats, m, cfg) ==
    IF m.team1Id \notin DOMAIN stats \/ m.team2Id \notin DOMAIN stats THEN stats
    ELSE
    LET pc == pointsConfig(cfg)
        t1Win == m.resultType = "T1_WIN"
        t2Win == m.resultType = "T2_WIN"
        p1 == IF t1Win THEN pc.win ELSE IF t2Win THEN pc.loss ELSE pc.draw
        p2 == IF t1Win THEN pc.loss ELSE IF t2Win THEN pc.win ELSE pc.draw
        t1VolFaced == VolFaced(cfg, m.t1Wickets, m.t1OversWhole, m.t1Balls)
        t2VolFaced == VolFaced(cfg, m.t2Wickets, m.t2OversWhole, m.t2Balls)
        s1 == Credit(stats, m.team1Id, 1, IF t1Win THEN 1 ELSE 0, p1,
                     OrElse(m.t1Runs, 0), t1VolFaced,
                     OrElse(m.t2Runs, 0), t2VolFaced, OrElse(m.t1Wickets, 0))
    IN  Credit(s1, m.team2Id, 1, IF t2Win THEN 1 ELSE 0, p2,
               OrElse(m.t2Runs, 0), t2VolFaced,
               OrElse(m.t1Runs, 0), t1VolFaced, OrElse(m.t2Wickets, 0))

\* mutant: a match is skipped only when neither of its teams is known
ApplyMatch_SkipBothUnknown(stats, m, cfg) ==
    IF m.team1Id \notin DOMAIN stats /\ m.team2Id \notin DOMAIN stats THEN stats
    ELSE
    LET pc == pointsConfig(cfg)
        t1Win == m.resultType = "T1_WIN"
        t2Win == m.resultType = "T2_WIN"
        p1 == IF t1Win THEN pc.win ELSE IF t2Win THEN pc.loss ELSE pc.draw
        p2 == IF t1Win THEN pc.loss ELSE IF t2Win THEN pc.win ELSE pc.draw
        t1VolFaced == VolFaced(cfg, m.t1Wickets, m.t1OversWhole, m.t1Balls)
        t2VolFaced == VolFaced(cfg, m.t2Wickets, m.t2OversWhole, m.t2Balls)
        s1 == IF m.team1Id \notin DOMAIN stats THEN stats
              ELSE Credit(stats, m.team1Id, 1, IF t1Win THEN 1 ELSE 0, p1,
                          OrElse(m.t1Runs, 0), t1VolFaced,
                          OrElse(m.t2Runs, 0), t2VolFaced, OrElse(m.t2Wickets, 0))
    IN  IF m.team2Id \notin DOMAIN stats THEN s1
        ELSE Credit(s1, m.team2Id, 1, IF t2Win THEN 1 ELSE 0, p2,
                    OrElse(m.t2Runs, 0), t2VolFaced,
                    OrElse(m.t1Runs, 0), t1VolFaced, OrElse(m.t1Wickets, 0))

\* the body of tournament.matches.filter(COMPLETED).forEach
ApplyMatch(stats, m, cfg) ==
    IF m.team1Id \notin DOMAIN stats \/ m.team2Id \notin DOMAIN stats THEN stats
    ELSE
    LET pc == pointsConfig(cfg)
        t1Win == m.resultType = "T1_WIN"
        t2Win == m.resultType = "T2_WIN"
        p1 == IF t1Win THEN pc.win ELSE IF t2Win THEN pc.loss ELSE pc.draw
        p2 == IF t1Win THEN pc.loss ELSE IF t2Win THEN pc.win ELSE pc.draw
        t1VolFaced == VolFaced(cfg, m.t1Wickets, m.t1OversWhole, m.t1Balls)
        t2VolFaced == VolFaced(cfg, m.t2Wickets, m.t2OversWhole, m.t2Balls)
        s1 == Credit(stats, m.team1Id, 1, IF t1Win THEN 1 ELSE 0, p1,
                     OrElse(m.t1Runs, 0), t1VolFaced,
                     OrElse(m.t2Runs, 0), t2VolFaced, OrElse(m.t2Wickets, 0))
    IN  Credit(s1, m.team2Id, 1, IF t2Win THEN 1 ELSE 0, p2,
               OrElse(m.t2Runs, 0), t2VolFaced,
               OrElse(m.t1Runs, 0), t1VolFaced, OrElse(m.t1Wickets, 0))

\* mutant: the status filter is missing
RECURSIVE FoldMatches_AnyStatus(_, _, _)
FoldMatches_AnyStatus(stats, ms, cfg) ==
    IF ms = <<>> THEN stats
    ELSE FoldMatches_AnyStatus(ApplyMatch(stats, Head(ms), cfg), Tail(ms), cfg)

RECURSIVE FoldMatches(_, _, _)
FoldMatches(stats, ms, cfg) ==
    IF ms = <<>> THEN stats
    ELSE FoldMatches(IF Head(ms).status = "COMPLETED"
                     THEN ApplyMatch(stats, Head(ms), cfg) ELSE stats,
                     Tail(ms), cfg)

\* mutant: the net run rate is the scoring rate, the economy is not deducted
WithRates_GrossRate(s) ==
    LET rrS == IF s.oversFaced > 0 THEN Frac(s.runsScored * VolScale, s.oversFaced) ELSE Zero
        rrC == IF s.oversBowled > 0 THEN Frac(s.runsConceded * VolScale, s.oversBowled) ELSE Zero
    IN  [s EXCEPT !.nrr = rrS, !.scoringRate = rrS, !.economyRate = rrC]

\* Object.values(stats).forEach: the rates of one team
WithRates(s) ==
    LET rrS == IF s.oversFaced > 0 THEN Frac(s.runsScored * VolScale, s.oversFaced) ELSE Zero
        rrC == IF s.oversBowled > 0 THEN Frac(s.runsConceded * VolScale, s.oversBowled) ELSE Zero
    IN  [s EXCEPT !.nrr = FracSub(rrS, rrC), !.scoringRate = rrS, !.economyRate = rrC]

ComputeStandingsMap(ts, ms, cfg) ==
    LET stats0 == [id \in TeamIds(ts) |-> InitStats(TeamById(ts, id))]
        stats1 == FoldMatches(stats0, ms, cfg)
    IN  [id \in DOMAIN stats1 |-> WithRates(stats1[id])]

\* mutant: the ranking looks at the points only
Compare_PointsOnly(a, b) == b.actualPoints - a.actualPoints

\* the comparator of standings: negative when a sorts before b
Compare(a, b) ==
    IF b.actualPoints # a.actualPoints THEN b.actualPoints - a.actualPoints
    ELSE IF b.nrr # a.nrr THEN FracCmp(b.nrr, a.nrr)
    ELSE FracCmp(b.scoringRate, a.scoringRate)

\* Array.prototype.sort is stable: x goes after every element it does not precede
RECURSIVE InsertSorted(_, _)
InsertSorted(x, sorted) ==
    IF sorted = <<>> THEN <<x>>
    ELSE IF Compare(x, Head(sorted)) < 0 THEN <<x>> \o sorted
    ELSE <<Head(sorted)>> \o InsertSorted(x, Tail(sorted))

RECURSIVE SortList(_)
SortList(list) ==
    IF list = <<>> THEN <<>>
    ELSE InsertSorted(list[Len(list)], SortList(SubSeq(list, 1, Len(list) - 1)))

\* Object.values(standingsMap) lists the teams in insertion order
ComputeStandings(ts, smap) == SortList([i \in DOMAIN ts |-> smap[ts[i].id]])

\* standings.slice(0, 4): the rows of the TOP 4 TEAMS panel
PlayoffSpots == 4

TopFour(st) == SubSeq(st, 1, IF Len(st) < PlayoffSpots THEN Len(st) ELSE PlayoffSpots)

\* mutant: the badge is shown for teams level on points and net run rate
TieBadge_LevelOnRate(st, i) ==
    \E idx \in DOMAIN st :
        idx # i /\ st[idx].actualPoints = st[i].actualPoints /\ st[idx].nrr = st[i].nrr

\* the condition of the TIE badge of row i of the panel
TieBadge(st, i) ==
    \E idx \in DOMAIN st : idx # i /\ st[idx].actualPoints = st[i].actualPoints

\* the teams the panel shows with a TIE badge
TieFlagged(st) == {st[i].id : i \in {k \in DOMAIN TopFour(st) : TieBadge(st, k)}}

\* [...standings].filter(s => s.oversBowled > 0)
RECURSIVE FilterBowled(_)
FilterBowled(st) ==
    IF st = <<>> THEN <<>>
    ELSE (IF Head(st).oversBowled > 0 THEN <<Head(st)>> ELSE <<>>) \o FilterBowled(Tail(st))

\* .sort((a, b) => a.economyRate - b.economyRate), stable
RECURSIVE InsertByEconomy(_, _)
InsertByEconomy(x, sorted) ==
    IF sorted = <<>> THEN <<x>>
    ELSE IF FracCmp(x.economyRate, Head(sorted).economyRate) < 0 THEN <<x>> \o sorted
    ELSE <<Head(sorted)>> \o InsertByEconomy(x, Tail(sorted))

RECURSIVE SortByEconomy(_)
SortByEconomy(list) ==
    IF list = <<>> THEN <<>>
    ELSE InsertByEconomy(list[Len(list)], SortByEconomy(SubSeq(list, 1, Len(list) - 1)))

\* mutant: the teams that have not bowled are not filtered out
bestEconomyTeam_Unfiltered(st) ==
    LET sorted == SortByEconomy(st)
    IN  IF sorted = <<>> THEN NULL ELSE sorted[1].id

\* dashMetrics.bestEconomyTeam: the id of the team, NULL when [0] is undefined
bestEconomyTeam(st) ==
    LET sorted == SortByEconomy(FilterBowled(st))
    IN  IF sorted = <<>> THEN NULL ELSE sorted[1].id

\* the matches of new that old does not hold at the same place
RECURSIVE ChangedFrom(_, _, _)
ChangedFrom(new, old, i) ==
    IF i > Len(new) THEN <<>>
    ELSE (IF i > Len(old) \/ new[i] # old[i] THEN <<new[i]>> ELSE <<>>)
         \o ChangedFrom(new, old, i + 1)

\* mutant: the memo is kept and the changed matches are added to it
Render_Incremental ==
    /\ standingsMap' =
           LET stats1 == FoldMatches(standingsMap, ChangedFrom(matches', matches, 1), config')
           IN  [id \in DOMAIN stats1 |-> WithRates(stats1[id])]
    /\ standings' = ComputeStandings(teams', standingsMap')

\* a render: both memos are recomputed from the tournament of the new state
Render ==
    /\ standingsMap' = ComputeStandingsMap(teams', matches', config')
    /\ standings' = ComputeStandings(teams', standingsMap')

\* a render after a change of component state only: the tournament is the
\* same, and so are the memos computed from it
Rerender == UNCHANGED memoVars

(***************************************************************************)
(* The volumes as the IEEE 754 doubles the code adds up.  The fields       *)
(* oversFaced and oversBowled above are the exact sums; the double that    *)
(* `+=` leaves in the field is the exact sum plus the rounding error of    *)
(* every addition.  A double d in the range of the volumes is kept as      *)
(* [k, e] with d = (k * 2^55 + e) / (6 * 2^55): k is the exact value in    *)
(* balls and e the accumulated error in units of 2^-55 / 6.  Rounding is   *)
(* to the nearest double, ties to even.  Values are in [0, 64).            *)
(***************************************************************************)
RECURSIVE Pow2(_)
Pow2(n) == IF n = 0 THEN 1 ELSE 2 * Pow2(n - 1)

\* d >= 2^j
AtLeastPow2(k, e, j) ==
    LET a == IF j >= 0 THEN k ELSE k * Pow2(-j)
        b == IF j >= 0 THEN 6 * Pow2(j) ELSE 6
    IN  a > b \/ (a = b /\ e >= 0)

\* the exponent of d: 2^j <= d < 2^(j+1)
Binade(k, e) ==
    CHOOSE j \in -3..5 : AtLeastPow2(k, e, j) /\ (j = 5 \/ ~AtLeastPow2(k, e, j + 1))

\* the double nearest to the real number (k * 2^55 + e) / (6 * 2^55): 53
\* significant bits, so one unit in the last place is 2^(j-52), that is G
\* units of 2^-55 / 6
RoundDouble(k, e) ==
    IF k = 0 THEN [k |-> 0, e |-> 0]
    ELSE
    LET j == Binade(k, e)
        G == 6 * Pow2(j + 3)
        pow == IF (52 - j) % 2 = 0 THEN 4 ELSE 8      \* 2^(52-j) mod 12
        T == (Pow2(j + 3) * ((k * pow) % 12) + e) % (2 * G)
        r == T % G
        down == 2 * r < G \/ (2 * r = G /\ T < G)
    IN  [k |-> k, e |-> IF down THEN e - r ELSE e + G - r]

\* a + b of two doubles
DoubleAdd(a, b) == RoundDouble(a.k + b.k, a.e + b.e)

\* the double of a whole number
DoubleOf(n) == [k |-> 6 * n, e |-> 0]

\* whole + balls / 6
DoubleDecimalOvers(whole, balls) == DoubleAdd(DoubleOf(whole), RoundDouble(balls, 0))

\* t1VolFaced / t2VolFaced; the limits of the model are whole numbers of overs
DoubleVolFaced(cfg, wickets, oversWhole, balls) ==
    IF isHundred(cfg)
    THEN DoubleOf(IF wickets = Num(10) THEN 100 ELSE OrElse(oversWhole, 0))
    ELSE IF wickets = Num(10) THEN DoubleOf(maxOvers(cfg) \div VolScale)
         ELSE DoubleDecimalOvers(OrElse(oversWhole, 0), OrElse(balls, 0))

\* oversFaced += and oversBowled += of the forEach body, match by match
RECURSIVE DoubleFold(_, _, _)
DoubleFold(vols, ms, cfg) ==
    IF ms = <<>> THEN vols
    ELSE
    LET m == Head(ms)
        skip == \/ m.status # "COMPLETED"
                \/ m.team1Id \notin DOMAIN vols \/ m.team2Id \notin DOMAIN vols
        v1 == DoubleVolFaced(cfg, m.t1Wickets, m.t1OversWhole, m.t1Balls)
        v2 == DoubleVolFaced(cfg, m.t2Wickets, m.t2OversWhole, m.t2Balls)
        a == [vols EXCEPT ![m.team1Id] =
                 [oversFaced |-> DoubleAdd(@.oversFaced, v1),
                  oversBowled |-> DoubleAdd(@.oversBowled, v2)]]
        b == [a EXCEPT ![m.team2Id] =
                 [oversFaced |-> DoubleAdd(@.oversFaced, v2),
                  oversBowled |-> DoubleAdd(@.oversBowled, v1)]]
    IN  DoubleFold(IF skip THEN vols ELSE b, Tail(ms), cfg)

\* the doubles in oversFaced and oversBowled of every team of standingsMap
DoubleVolumes(ts, ms, cfg) ==
    DoubleFold([id \in TeamIds(ts) |-> [oversFaced |-> DoubleOf(0), oversBowled |-> DoubleOf(0)]],
               ms, cfg)

(***************************************************************************)
(* Records of the data model.                                              *)
(***************************************************************************)
\* a Team as CreateTournamentForm builds it; stale is the value of the
\* statistics counters the record carries (0 when freshly created)
Team(id, stale) == [id |-> id, matchesPlayed |-> stale, runsScored |-> stale]

Match(id, round, t1, t2, status, resultType, winnerId, i1, i2) ==
    [id |-> id, round |-> round, team1Id |-> t1, team2Id |-> t2,
     status |-> status, resultType |-> resultType, winnerId |-> winnerId,
     t1Runs |-> i1.runs, t1Wickets |-> i1.wickets,
     t1OversWhole |-> i1.oversWhole, t1Balls |-> i1.balls,
     t2Runs |-> i2.runs, t2Wickets |-> i2.wickets,
     t2OversWhole |-> i2.oversWhole, t2Balls |-> i2.balls]

\* one side's score fields
Innings(runs, wickets, oversWhole, balls) ==
    [runs |-> runs, wickets |-> wickets, oversWhole |-> oversWhole, balls |-> balls]

NoInnings == Innings(Undef, Undef, Undef, Undef)

MatchId(k) == <<"M", "-">> \o toString(k)

\* null for editingMatchId: no match id is the empty string
NoId == <<>>

EmptyForm ==
    [t1Runs |-> <<>>, t1Wickets |-> <<>>, t1OversWhole |-> <<>>, t1Balls |-> <<"0">>,
     t2Runs |-> <<>>, t2Wickets |-> <<>>, t2OversWhole |-> <<>>, t2Balls |-> <<"0">>]

TournamentName == <<"C", "U", "P">>

(***************************************************************************)
(* Inputs of the standings engine: the tournaments a workspace may be      *)
(* opened on.  A stored tournament may hold any Match the type allows.     *)
(***************************************************************************)
AllTeamIds == {"A", "B", "C", "D", "E"}

\* team lists: with two teams, "C" is a dangling reference; with five, one team
\* is below the first four of the ranking
TeamLists ==
    {<<Team("A", 0), Team("B", 0)>>,
     <<Team("A", 1), Team("B", 0), Team("C", 2), Team("D", 0), Team("E", 0)>>}

TwoOvers == <<"2">>

PointsTriples == {<<3, 1, -1>>, <<0, 0, 5>>}

Config(overs, pts) ==
    [oversPerMatch |-> overs, pointsForWin |-> pts[1],
     pointsForDraw |-> pts[2], pointsForLoss |-> pts[3]]

EngineConfigs == {Config(o, p) : o \in {TwoOvers, HundredBalls}, p \in PointsTriples}

Pairings == {<<"A", "B">>, <<"B", "C">>, <<"C", "A">>}

ResultTypes == {"T1_WIN", "T2_WIN", "DRAW", "TIE", "NO_RESULT", "ABANDONED"}

\* status and result type of a stored match
Outcomes ==
    {<<"NOT_STARTED", NULL>>, <<"IN_PROGRESS", "T1_WIN">>}
    \cup {<<"COMPLETED", r>> : r \in ResultTypes \cup {NULL}}

\* the score card of the matches that vary in teams and result: a side with
\* balls of an unfinished over against an all-out side whose recorded overs
\* fall short of the limit
BaseCard ==
    <<Innings(Num(1), Num(3), Num(1), Num(5)), Innings(Num(1), Num(10), Num(1), Num(3))>>

\* the score card of a level match: both sides have the same runs in the same
\* volume, so that both have a net run rate of 0 and a scoring rate above 0
LevelCard ==
    <<Innings(Num(1), Num(3), Num(1), Undef), Innings(Num(1), Num(3), Num(1), Undef)>>

\* score cards: a side with no fields, sides with some fields missing (runs
\* without any recorded overs among them), and the base card with the first
\* side's runs varied
Scorecards ==
    {<<NoInnings, Innings(Num(1), Num(3), Num(2), Undef)>>,
     <<Innings(Num(2), Num(10), Num(1), Undef), Innings(Num(1), Num(9), Undef, Num(4))>>}
    \cup {<<Innings(Num(r), Num(3), Num(1), Num(5)), BaseCard[2]>> : r \in 1..MaxRuns}

WinnerOf(p, r) == IF r = "T1_WIN" THEN p[1] ELSE IF r = "T2_WIN" THEN p[2] ELSE NULL

StoredMatch(p, o, sc) ==
    Match(MatchId(1), 1, p[1], p[2], o[1], o[2], WinnerOf(p, o[2]), sc[1], sc[2])

\* stored matches: every status and result type between A and B, the other
\* pairings completed and pending, every score card on a completed match, and
\* a level match won by B against C
StoredMatches ==
    {StoredMatch(<<"A", "B">>, o, BaseCard) : o \in Outcomes}
    \cup {StoredMatch(p, o, BaseCard) :
              p \in Pairings, o \in {<<"COMPLETED", "T1_WIN">>, <<"IN_PROGRESS", "T1_WIN">>}}
    \cup {StoredMatch(<<"A", "B">>, <<"COMPLETED", "T2_WIN">>, sc) : sc \in Scorecards}
    \cup {StoredMatch(<<"B", "C">>, <<"COMPLETED", "T1_WIN">>, LevelCard)}

(***************************************************************************)
(* The engine under every input: the workspace is rendered on a stored     *)
(* tournament, and re-rendered when the tournament prop changes.           *)
(***************************************************************************)
\* the names of the tournaments of the list; handleSubmit stores a name upper-cased
ListedNames == <<TournamentName, <<"A", "S", "H">>, <<"I", "P", "L">>, <<"T", "2", "0">>>>

Listed == [i \in 1..MaxListed |-> [id |-> <<"t1", "t2", "t3", "t4">>[i], name |-> ListedNames[i]]]

\* the list as it is shown first: every tournament, no dialog
ListInit ==
    /\ tournaments = Listed
    /\ deleteConfirmId = NULL
    /\ confirmName = <<>>

UiInit ==
    /\ resultForm = EmptyForm
    /\ editingMatchId = NoId
    /\ showSecurityModal = NULL
    /\ securityInput = <<>>
    /\ edits = 0

MemoInit ==
    /\ standingsMap = ComputeStandingsMap(teams, matches, config)
    /\ standings = ComputeStandings(teams, standingsMap)

InitEngine ==
    /\ teams \in TeamLists
    /\ stadiums = <<"S1">>
    /\ matches = <<>>
    /\ isLocked = FALSE
    /\ logs = <<>>
    /\ config \in EngineConfigs
    /\ UiInit
    /\ MemoInit
    /\ ListInit

\* the tournament prop gains a match
PropAddMatch(m) ==
    /\ Len(matches) < MaxMatches
    /\ matches' = Append(matches, m)
    /\ UNCHANGED <<teams, stadiums, isLocked, logs, config, uiVars>>
    /\ Render
    /\ UNCHANGED listVars

\* the tournament prop loses a match
PropRemoveMatch(i) ==
    /\ matches' = SubSeq(matches, 1, i - 1) \o SubSeq(matches, i + 1, Len(matches))
    /\ UNCHANGED <<teams, stadiums, isLocked, logs, config, uiVars>>
    /\ Render
    /\ UNCHANGED listVars

\* a match that is not completed has fields changed and stays not completed
PropEditPending(i, m) ==
    /\ matches[i].status # "COMPLETED"
    /\ m.status # "COMPLETED"
    /\ m.team1Id = matches[i].team1Id
    /\ m.team2Id = matches[i].team2Id
    /\ m # matches[i]
    /\ matches' = [matches EXCEPT ![i] = m]
    /\ UNCHANGED <<teams, stadiums, isLocked, logs, config, uiVars>>
    /\ Render
    /\ UNCHANGED listVars

NextEngine ==
    \/ \E m \in StoredMatches : PropAddMatch(m)
    \/ \E i \in DOMAIN matches : PropRemoveMatch(i)
    \/ \E i \in DOMAIN matches, m \in StoredMatches : PropEditPending(i, m)

SpecEngine == InitEngine /\ [][NextEngine]_vars

(***************************************************************************)
(* The engine on one season of a pair of teams: the tournament prop gains  *)
(* completed matches whose first side faced different volumes, and has its *)
(* match list reordered.                                                   *)
(***************************************************************************)
MaxSeason == 3

\* overs and balls faced by the first side
SeasonVolumes == {<<0, 1>>, <<0, 4>>, <<1, 0>>, <<1, 1>>, <<1, 5>>}

SeasonMatches ==
    {StoredMatch(<<"A", "B">>, <<"COMPLETED", "T1_WIN">>,
                 <<Innings(Num(2), Num(1), Num(v[1]), Num(v[2])), BaseCard[2]>>) :
         v \in SeasonVolumes}

Orderings(n) ==
    {p \in [1..n -> 1..n] : \A i, j \in 1..n : i # j => p[i] # p[j]}

Permuted(ms, p) == [i \in DOMAIN ms |-> ms[p[i]]]

InitSeason ==
    /\ teams = <<Team("A", 0), Team("B", 0)>>
    /\ stadiums = <<"S1">>
    /\ matches = <<>>
    /\ isLocked = FALSE
    /\ logs = <<>>
    /\ config \in {Config(o, <<2, 1, 0>>) : o \in {TwoOvers, HundredBalls}}
    /\ UiInit
    /\ MemoInit
    /\ ListInit

\* the tournament prop gains a match of the season
PropAppendMatch(m) ==
    /\ Len(matches) < MaxSeason
    /\ matches' = Append(matches, m)
    /\ UNCHANGED <<teams, stadiums, isLocked, logs, config, uiVars>>
    /\ Render
    /\ UNCHANGED listVars

\* the tournament prop has the same matches in another order
PropReorder(p) ==
    /\ Permuted(matches, p) # matches
    /\ matches' = Permuted(matches, p)
    /\ UNCHANGED <<teams, stadiums, isLocked, logs, config, uiVars>>
    /\ Render
    /\ UNCHANGED listVars

NextSeason ==
    \/ \E m \in SeasonMatches : PropAppendMatch(m)
    \/ \E p \in Orderings(Len(matches)) : PropReorder(p)

SpecSeason == InitSeason /\ [][NextSeason]_vars

(***************************************************************************)
(* The workspace: handlers of TournamentWorkspace on a created tournament. *)
(***************************************************************************)
LowerCase == <<"a", "b", "c", "d", "e", "f", "g", "h", "i", "j", "k", "l", "m",
               "n", "o", "p", "q", "r", "s", "t", "u", "v", "w", "x", "y", "z">>
UpperCase == <<"A", "B", "C", "D", "E", "F", "G", "H", "I", "J", "K", "L", "M",
               "N", "O", "P", "Q", "R", "S", "T", "U", "V", "W", "X", "Y", "Z">>

UpperChar(c) ==
    IF c \in Range(LowerCase)
    THEN UpperCase[CHOOSE i \in DOMAIN LowerCase : LowerCase[i] = c]
    ELSE c

toUpperCase(str) == [i \in DOMAIN str |-> UpperChar(str[i])]

\* handleUpdate(updates, logAction): the log gains an entry at its head and
\* the logs of the updates, if any, are overridden by it
LogEntry(action, arg) == [action |-> action, arg |-> arg]

handleUpdateLogs(action, arg) == <<LogEntry(action, arg)>> \o logs

\* the modal is a full-screen overlay above every other control
ModalClosed == showSecurityModal = NULL

\* the limit of handleScoreChange for the OversWhole fields
OversLimit(cfg) ==
    IF isHundred(cfg) THEN 100 ELSE OrElse(parseInt(OversString(cfg)), 20)

Less(x, k) == x # NaN /\ x[1] < k
Greater(x, k) == x # NaN /\ x[1] > k

RunsFields == {"t1Runs", "t2Runs"}
WicketsFields == {"t1Wickets", "t2Wickets"}
OversFields == {"t1OversWhole", "t2OversWhole"}
BallsFields == {"t1Balls", "t2Balls"}

\* the value handleScoreChange stores for a typed value; Rejected when it returns early
Rejected == <<"rejected">>

\* mutant: the typed value is stored as it is
FinalValue_AsTyped(field, value, cfg) == value

FinalValue(field, value, cfg) ==
    LET num == parseInt(value)
    IN  IF field \in RunsFields
        THEN IF Less(num, 0) THEN Rejected
             ELSE IF Greater(num, 9999) THEN toString(9999) ELSE value
        ELSE IF field \in WicketsFields
        THEN IF Greater(num, 10) THEN toString(10)
             ELSE IF Less(num, 0) THEN toString(0) ELSE value
        ELSE IF field \in OversFields
        THEN IF Greater(num, OversLimit(cfg)) THEN toString(OversLimit(cfg))
             ELSE IF Less(num, 0) THEN toString(0) ELSE value
        ELSE value

\* the edits explored: one less in a tournament of more than two teams
EditBudget == IF Len(teams) > 2 THEN MaxEdits - 1 ELSE MaxEdits

handleScoreChange(field, value) ==
    /\ ModalClosed
    /\ editingMatchId # NoId
    /\ \E i \in DOMAIN matches : matches[i].id = editingMatchId
    /\ edits < EditBudget
    /\ FinalValue(field, value, config) # Rejected
    /\ resultForm' = [resultForm EXCEPT ![field] = FinalValue(field, value, config)]
    /\ edits' = edits + 1
    /\ UNCHANGED <<tournVars, editingMatchId, showSecurityModal, securityInput>>
    /\ Rerender
    /\ UNCHANGED listVars

\* m.t1Runs?.toString() || '' of the editor button
FieldString(x, empty) == IF x = Undef THEN empty ELSE toString(x[1])

FormOf(m) ==
    [t1Runs |-> FieldString(m.t1Runs, <<>>), t1Wickets |-> FieldString(m.t1Wickets, <<>>),
     t1OversWhole |-> FieldString(m.t1OversWhole, <<>>),
     t1Balls |-> FieldString(m.t1Balls, <<"0">>),
     t2Runs |-> FieldString(m.t2Runs, <<>>), t2Wickets |-> FieldString(m.t2Wickets, <<>>),
     t2OversWhole |-> FieldString(m.t2OversWhole, <<>>),
     t2Balls |-> FieldString(m.t2Balls, <<"0">>)]

\* the button of a match card: closes the editor of that match or opens it
ToggleEditor(i) ==
    /\ ModalClosed
    /\ IF editingMatchId = matches[i].id
       THEN editingMatchId' = NoId /\ UNCHANGED resultForm
       ELSE editingMatchId' = matches[i].id /\ resultForm' = FormOf(matches[i])
    /\ UNCHANGED <<tournVars, showSecurityModal, securityInput, edits>>
    /\ Rerender
    /\ UNCHANGED listVars

\* mutant: the save stores the result and leaves the status as it was
SavedMatch_KeepsStatus(m, form) ==
    LET t1R == OrElse(parseInt(form.t1Runs), 0)
        t2R == OrElse(parseInt(form.t2Runs), 0)
    IN  [m EXCEPT !.t1Runs = Num(t1R), !.t2Runs = Num(t2R),
                  !.resultType = IF t1R > t2R THEN "T1_WIN"
                                 ELSE IF t2R > t1R THEN "T2_WIN" ELSE "TIE"]

\* mutant: equal runs are stored as a win of the first side
SavedMatch_FirstWinsTie(m, form) ==
    LET t1R == OrElse(parseInt(form.t1Runs), 0)
        t2R == OrElse(parseInt(form.t2Runs), 0)
        type == IF t1R >= t2R THEN "T1_WIN" ELSE "T2_WIN"
        winnerId == IF t1R >= t2R THEN m.team1Id ELSE m.team2Id
    IN  [m EXCEPT !.status = "COMPLETED",
                  !.t1Runs = Num(t1R),
                  !.t1Wickets = Num(OrElse(parseInt(form.t1Wickets), 0)),
                  !.t1OversWhole = Num(OrElse(parseInt(form.t1OversWhole), 0)),
                  !.t1Balls = Num(OrElse(parseInt(form.t1Balls), 0)),
                  !.t2Runs = Num(t2R),
                  !.t2Wickets = Num(OrElse(parseInt(form.t2Wickets), 0)),
                  !.t2OversWhole = Num(OrElse(parseInt(form.t2OversWhole), 0)),
                  !.t2Balls = Num(OrElse(parseInt(form.t2Balls), 0)),
                  !.resultType = type,
                  !.winnerId = winnerId]

\* the match handleSaveResult stores for the form
SavedMatch(m, form) ==
    LET t1R == OrElse(parseInt(form.t1Runs), 0)
        t2R == OrElse(parseInt(form.t2Runs), 0)
        type == IF t1R > t2R THEN "T1_WIN" ELSE IF t2R > t1R THEN "T2_WIN" ELSE "TIE"
        winnerId == IF t1R > t2R THEN m.team1Id ELSE IF t2R > t1R THEN m.team2Id ELSE NULL
    IN  [m EXCEPT !.status = "COMPLETED",
                  !.t1Runs = Num(t1R),
                  !.t1Wickets = Num(OrElse(parseInt(form.t1Wickets), 0)),
                  !.t1OversWhole = Num(OrElse(parseInt(form.t1OversWhole), 0)),
                  !.t1Balls = Num(OrElse(parseInt(form.t1Balls), 0)),
                  !.t2Runs = Num(t2R),
                  !.t2Wickets = Num(OrElse(parseInt(form.t2Wickets), 0)),
                  !.t2OversWhole = Num(OrElse(parseInt(form.t2OversWhole), 0)),
                  !.t2Balls = Num(OrElse(parseInt(form.t2Balls), 0)),
                  !.resultType = type,
                  !.winnerId = winnerId]

\* the save button of the open editor
handleSaveResult(matchId) ==
    /\ ModalClosed
    /\ editingMatchId = matchId
    /\ ~isLocked
    /\ \E i \in DOMAIN matches : matches[i].id = matchId
    /\ Len(logs) < MaxLogs
    /\ matches' = [i \in DOMAIN matches |->
                      IF matches[i].id = matchId
                      THEN SavedMatch(matches[i], resultForm) ELSE matches[i]]
    /\ logs' = handleUpdateLogs("RESULT ENTERED: MATCH", matchId)
    /\ editingMatchId' = NoId
    /\ UNCHANGED <<teams, stadiums, isLocked, config, resultForm, showSecurityModal,
                   securityInput, edits>>
    /\ Render
    /\ UNCHANGED listVars

\* mutant: the whole list is rotated, the first team is not held in place
Rotate_Whole(ids) ==
    <<ids[Len(ids)]>> \o SubSeq(ids, 1, Len(ids) - 1)

\* teams.splice(1, 0, teams.pop())
Rotate(ids) ==
    <<ids[1], ids[Len(ids)]>> \o SubSeq(ids, 2, Len(ids) - 1)

RECURSIVE Rotated(_, _)
Rotated(ids, r) == IF r = 0 THEN ids ELSE Rotate(Rotated(ids, r - 1))

\* the inner loop runs while m < teams.length / 2
PerRound(n) == (n + 1) \div 2

\* newMatches of generateSchedule for the team ids
Schedule(ids) ==
    LET n == Len(ids)
        k == PerRound(n)
    IN  [j \in 1..((n - 1) * k) |->
            LET r == (j - 1) \div k
                m == (j - 1) % k
                ts == Rotated(ids, r)
            IN  Match(MatchId(j), r + 1, ts[m + 1], ts[n - m],
                      "NOT_STARTED", NULL, NULL, NoInnings, NoInnings)]

\* the GENERATE FIXTURES button, shown while there is no match
generateSchedule ==
    /\ ModalClosed
    /\ Len(matches) = 0
    /\ ~isLocked
    /\ Len(teams) >= 2 /\ Len(stadiums) # 0
    /\ Len(logs) < MaxLogs
    /\ matches' = Schedule([i \in DOMAIN teams |-> teams[i].id])
    /\ logs' = handleUpdateLogs("SCHEDULE GENERATED", <<>>)
    /\ UNCHANGED <<teams, stadiums, isLocked, config, uiVars>>
    /\ Render
    /\ UNCHANGED listVars

\* the LOCK and FACTORY SYSTEM RESET buttons
OpenSecurityModal(type) ==
    /\ ModalClosed
    /\ showSecurityModal' = type
    /\ UNCHANGED <<tournVars, resultForm, editingMatchId, securityInput, edits>>
    /\ Rerender
    /\ UNCHANGED listVars

\* typing into the input of the modal
TypeSecurityInput(str) ==
    /\ showSecurityModal # NULL
    /\ securityInput' = str
    /\ UNCHANGED <<tournVars, resultForm, editingMatchId, showSecurityModal, edits>>
    /\ Rerender
    /\ UNCHANGED listVars

\* securityInput.toUpperCase() !== tournament.name.toUpperCase()
Mismatch(str) == toUpperCase(str) # toUpperCase(TournamentName)

\* the CONFIRM button of the modal; on a mismatch it alerts and returns
ConfirmSecurity ==
    /\ showSecurityModal # NULL
    /\ IF Mismatch(securityInput)
       THEN UNCHANGED vars
       ELSE /\ Len(logs) < MaxLogs
            /\ IF showSecurityModal = "RESET"
               THEN /\ matches' = <<>>
                    /\ logs' = handleUpdateLogs("FACTORY RESET EXECUTED", <<>>)
                    /\ UNCHANGED isLocked
               ELSE /\ isLocked' = ~isLocked
                    /\ logs' = handleUpdateLogs(IF ~isLocked THEN "SYSTEM LOCKED"
                                                ELSE "SYSTEM UNLOCKED", <<>>)
                    /\ UNCHANGED matches
            /\ showSecurityModal' = NULL
            /\ securityInput' = <<>>
            /\ UNCHANGED <<teams, stadiums, config, resultForm, editingMatchId, edits>>
            /\ Render
            /\ UNCHANGED listVars

\* the ABORT button of the modal
AbortSecurity ==
    /\ showSecurityModal # NULL
    /\ showSecurityModal' = NULL
    /\ UNCHANGED <<tournVars, resultForm, editingMatchId, securityInput, edits>>
    /\ Rerender
    /\ UNCHANGED listVars

(***************************************************************************)
(* The tournament list (ManageTournamentList) and its delete dialog.       *)
(***************************************************************************)
\* the dialog is a full-screen overlay above the cards of the list
DialogClosed == deleteConfirmId = NULL

\* the DELETE button of the card of a tournament
handleDeleteAttempt(t) ==
    /\ DialogClosed
    /\ deleteConfirmId' = t.id
    /\ confirmName' = <<>>
    /\ UNCHANGED <<tournVars, uiVars, memoVars, tournaments>>

\* typing into the input of the dialog
TypeConfirmName(str) ==
    /\ ~DialogClosed
    /\ confirmName' = str
    /\ UNCHANGED <<tournVars, uiVars, memoVars, tournaments, deleteConfirmId>>

\* tournaments.find(t => t.id === deleteConfirmId)
Requested == CHOOSE i \in DOMAIN tournaments : tournaments[i].id = deleteConfirmId

\* the tournaments prop after onDelete(id)
Without(id) ==
    LET keep == {i \in DOMAIN tournaments : tournaments[i].id # id}
        F[k \in 0..Len(tournaments)] ==
            IF k = 0 THEN <<>>
            ELSE IF k \in keep THEN Append(F[k - 1], tournaments[k]) ELSE F[k - 1]
    IN  F[Len(tournaments)]

\* mutant: the names are compared upper-cased, as the security modal does
finalizeDelete_IgnoreCase ==
    /\ ~DialogClosed
    /\ IF toUpperCase(confirmName) = toUpperCase(tournaments[Requested].name)
       THEN /\ tournaments' = Without(tournaments[Requested].id)
            /\ deleteConfirmId' = NULL
            /\ UNCHANGED <<tournVars, uiVars, memoVars, confirmName>>
       ELSE UNCHANGED vars

\* the PERMANENT DELETE button of the dialog; on a mismatch it alerts and returns
finalizeDelete ==
    /\ ~DialogClosed
    /\ IF confirmName = tournaments[Requested].name
       THEN /\ tournaments' = Without(tournaments[Requested].id)
            /\ deleteConfirmId' = NULL
            /\ UNCHANGED <<tournVars, uiVars, memoVars, confirmName>>
       ELSE UNCHANGED vars

\* the ABORT button of the dialog
AbortDelete ==
    /\ ~DialogClosed
    /\ deleteConfirmId' = NULL
    /\ UNCHANGED <<tournVars, uiVars, memoVars, tournaments, confirmName>>

(***************************************************************************)
(* Inputs of the workspace.                                                *)
(***************************************************************************)
CreatedTeams(n) == [i \in 1..n |-> Team(<<"A", "B", "C", "D", "E">>[i], 0)]

WorkspaceConfigs == {Config(o, <<2, 1, 0>>) : o \in {TwoOvers, HundredBalls}}

TypedRuns == {toString(r) : r \in 1..MaxRuns} \cup {<<"-", "1">>, <<"1", "0", "0", "0", "0">>}
TypedWickets == {<<"1", "1">>, <<"-", "1">>}
TypedOvers == {<<"1", "0", "1">>, <<"-", "1">>}
TypedBalls == {<<"5">>}

Typed(field) ==
    IF field \in RunsFields THEN TypedRuns
    ELSE IF field \in WicketsFields THEN TypedWickets
    ELSE IF field \in OversFields THEN TypedOvers
    ELSE TypedBalls

\* the balls select is rendered in the traditional regime only
FormFields ==
    RunsFields \cup WicketsFields \cup OversFields
    \cup (IF isHundred(config) THEN {} ELSE BallsFields)

SecurityInputs == {<<"c", "u", "p">>}

Init ==
    /\ teams \in {CreatedTeams(n) : n \in 2..MaxTeams}
    /\ stadiums = <<"S1">>
    /\ matches = <<>>
    /\ isLocked = FALSE
    /\ logs = <<>>
    /\ config \in WorkspaceConfigs
    /\ UiInit
    /\ MemoInit
    /\ ListInit

Next ==
    \/ generateSchedule
    \/ \E i \in DOMAIN matches : ToggleEditor(i)
    \/ \E f \in FormFields : \E v \in Typed(f) : handleScoreChange(f, v)
    \/ \E i \in DOMAIN matches : handleSaveResult(matches[i].id)
    \/ \E type \in {"LOCK", "RESET"} : OpenSecurityModal(type)
    \/ \E str \in SecurityInputs : TypeSecurityInput(str)
    \/ ConfirmSecurity
    \/ AbortSecurity

Spec == Init /\ [][Next]_vars

(***************************************************************************)
(* The two confirmations by name: the delete dialog of the list and the    *)
(* security modal of the workspace of the tournament TournamentName.       *)
(***************************************************************************)
\* names typed into the dialog: the names of the list, one in lower case, one cut short
ConfirmNames ==
    {ListedNames[i] : i \in 1..MaxListed} \cup {<<"c", "u", "p">>, <<"C", "U">>}

\* names typed into the modal: the name, the name in lower case, the name cut short
GuardInputs == {TournamentName, <<"c", "u", "p">>, <<"C", "U">>}

InitGuard ==
    /\ teams = CreatedTeams(2)
    /\ stadiums = <<"S1">>
    /\ matches = <<>>
    /\ isLocked = FALSE
    /\ logs = <<>>
    /\ config = Config(TwoOvers, <<2, 1, 0>>)
    /\ UiInit
    /\ MemoInit
    /\ ListInit

NextGuard ==
    \/ \E i \in DOMAIN tournaments : handleDeleteAttempt(tournaments[i])
    \/ \E str \in ConfirmNames : TypeConfirmName(str)
    \/ finalizeDelete
    \/ AbortDelete
    \/ generateSchedule
    \/ \E type \in {"LOCK", "RESET"} : OpenSecurityModal(type)
    \/ \E str \in GuardInputs : TypeSecurityInput(str)
    \/ ConfirmSecurity
    \/ AbortSecurity

SpecGuard == InitGuard /\ [][NextGuard]_vars

(***************************************************************************)
(* Fixture generation for an even number of teams: the tournament of the   *)
(* creation form with 2, 4, ... 2 * MaxPairs teams in any order.           *)
(***************************************************************************)
ScheduleIds == {"A", "B", "C", "D", "E", "F", "G", "H"}

\* the lists of n teams with distinct ids
Squads(n) ==
    {[i \in 1..n |-> Team(ids[i], 0)] :
        ids \in {f \in [1..n -> ScheduleIds] : \A i, j \in 1..n : i # j => f[i] # f[j]}}

\* base of matchCalculation for SINGLE ROUND ROBIN
SingleRoundRobin(N) == (N * (N - 1)) \div 2

InitSchedule ==
    /\ teams \in UNION {Squads(2 * k) : k \in 1..MaxPairs}
    /\ stadiums = <<"S1">>
    /\ matches = <<>>
    /\ isLocked = FALSE
    /\ logs = <<>>
    /\ config = Config(TwoOvers, <<2, 1, 0>>)
    /\ UiInit
    /\ MemoInit
    /\ ListInit

NextSchedule == generateSchedule

SpecSchedule == InitSchedule /\ [][NextSchedule]_vars

(***************************************************************************)
(* Vocabulary of the properties.                                           *)
(***************************************************************************)
Known(m) == m.team1Id \in TeamIds(teams) /\ m.team2Id \in TeamIds(teams)

\* the matches the aggregation is about: completed, between known teams
Counted == {i \in DOMAIN matches : matches[i].status = "COMPLETED" /\ Known(matches[i])}

Plays(i, t) == t \in {matches[i].team1Id, matches[i].team2Id}

WonBy(i, t) ==
    \/ matches[i].team1Id = t /\ matches[i].resultType = "T1_WIN"
    \/ matches[i].team2Id = t /\ matches[i].resultType = "T2_WIN"

LostBy(i, t) ==
    \/ matches[i].team1Id = t /\ matches[i].resultType = "T2_WIN"
    \/ matches[i].team2Id = t /\ matches[i].resultType = "T1_WIN"

NoWinner(i) == matches[i].resultType \notin {"T1_WIN", "T2_WIN"}

Wins(t) == Cardinality({i \in Counted : WonBy(i, t)})
Losses(t) == Cardinality({i \in Counted : LostBy(i, t)})
Shared(t) == Cardinality({i \in Counted : Plays(i, t) /\ NoWinner(i)})
Played(t) == Cardinality({i \in Counted : Plays(i, t)})

Traditional == config.oversPerMatch # HundredBalls

\* a transition in which the match list gains one match at its end
Gains == 
    /\ Len(matches') = Len(matches) + 1
    /\ SubSeq(matches', 1, Len(matches)) = matches
    /\ UNCHANGED <<teams, config>>

Gained == matches'[Len(matches')]

GainsCounted == Gains /\ Gained.status = "COMPLETED" /\ Gained.team1Id \in TeamIds(teams)
                      /\ Gained.team2Id \in TeamIds(teams)

\* what a transition adds to a counter of a team
Delta(t, f) == standingsMap'[t][f] - standingsMap[t][f]

LastMatch == matches[Len(matches)]

(***************************************************************************)
(* C1: in the traditional regime, for every configured (win, draw, loss),  *)
(* zero and negative values included, a team's total points are            *)
(* win-points times its wins plus loss-points times its losses plus        *)
(* draw-points times its ties, over its completed matches.                 *)
(***************************************************************************)
C1_PointsAsConfigured ==
    Traditional =>
        \A t \in TeamIds(teams) :
            (\A i \in Counted : Plays(i, t) =>
                matches[i].resultType \in {"T1_WIN", "T2_WIN", "TIE"})
            => standingsMap[t].actualPoints =
                   config.pointsForWin * Wins(t)
                   + config.pointsForLoss * Losses(t)
                   + config.pointsForDraw * Shared(t)

(***************************************************************************)
(* C2: a team's matches-won counter is the number of completed matches it  *)
(* won, its matches-lost counter the number the other side won, and        *)
(* played = won + lost + the number of its matches without a winner.       *)
(***************************************************************************)
C2_WonLostCounters ==
    \A t \in TeamIds(teams) :
        /\ standingsMap[t].matchesWon = Wins(t)
        /\ standingsMap[t].matchesLost = Losses(t)
        /\ standingsMap[t].matchesPlayed =
               standingsMap[t].matchesWon + standingsMap[t].matchesLost + Shared(t)

(***************************************************************************)
(* C3: in the ball-count regime a team's points are 4 per win, 2 per match *)
(* without a winner and 0 per loss, whatever (win, draw, loss) is          *)
(* configured.                                                             *)
(***************************************************************************)
C3_HundredPoints ==
    ~Traditional =>
        \A t \in TeamIds(teams) :
            standingsMap[t].actualPoints = 4 * Wins(t) + 2 * Shared(t) + 0 * Losses(t)

C3_Witness ==
    /\ ~Traditional
    /\ config.pointsForWin # 4 /\ config.pointsForDraw # 2 /\ config.pointsForLoss # 0
    /\ \E t \in TeamIds(teams) : Wins(t) > 0 /\ Shared(t) > 0
    /\ \E t \in TeamIds(teams) : Losses(t) > 0

(***************************************************************************)
(* C4: a completed match whose result type is no first- or second-batting  *)
(* win (TIE, DRAW, NO_RESULT, ABANDONED, unset) gives both sides the       *)
(* configured draw-points (2 in the ball-count regime), increments no won  *)
(* counter and increments both sides' matches played.                      *)
(***************************************************************************)
DrawPoints == IF Traditional THEN config.pointsForDraw ELSE 2

C4_NoWinnerMatch ==
    [][GainsCounted /\ Gained.resultType \notin {"T1_WIN", "T2_WIN"} =>
        \A t \in {Gained.team1Id, Gained.team2Id} :
            /\ Delta(t, "actualPoints") = DrawPoints
            /\ Delta(t, "matchesWon") = 0
            /\ Delta(t, "matchesPlayed") = 1]_vars

(***************************************************************************)
(* C5: matches that are not completed are excluded from the aggregation:   *)
(* adding one, removing one or changing fields of one leaves every team's  *)
(* standing and the ranked order unchanged.                                *)
(***************************************************************************)
RECURSIVE CompletedOf(_)
CompletedOf(ms) ==
    IF ms = <<>> THEN <<>>
    ELSE (IF Head(ms).status = "COMPLETED" THEN <<Head(ms)>> ELSE <<>>)
         \o CompletedOf(Tail(ms))

C5_PendingExcluded ==
    [][matches' # matches /\ CompletedOf(matches') = CompletedOf(matches)
       /\ UNCHANGED <<teams, config>>
       => standingsMap' = standingsMap /\ standings' = standings]_vars

\* a pending match carrying score fields and a result type sits beside a
\* counted match, and neither of its teams has more than that one match
C5_Witness ==
    \E i \in DOMAIN matches, j \in Counted :
        /\ matches[i].status = "IN_PROGRESS"
        /\ matches[i].resultType = "T1_WIN"
        /\ matches[i].t1Runs # Undef
        /\ Known(matches[i])
        /\ \A t \in TeamIds(teams) :
               standingsMap[t].matchesPlayed = (IF Plays(j, t) THEN 1 ELSE 0)

(***************************************************************************)
(* C6: in every state reachable by generate-schedule, save-result,         *)
(* factory-reset and lock/unlock, a match that is not completed carries no *)
(* result fields: no result type, no winner, no runs, wickets, overs or    *)
(* balls of either side.                                                   *)
(***************************************************************************)
NoResultFields(m) ==
    /\ m.resultType = NULL /\ m.winnerId = NULL
    /\ m.t1Runs = Undef /\ m.t1Wickets = Undef
    /\ m.t1OversWhole = Undef /\ m.t1Balls = Undef
    /\ m.t2Runs = Undef /\ m.t2Wickets = Undef
    /\ m.t2OversWhole = Undef /\ m.t2Balls = Undef

C6_PendingHasNoResult ==
    \A i \in DOMAIN matches :
        matches[i].status # "COMPLETED" => NoResultFields(matches[i])

\* the schedule is generated and scores are typed into the open editor of a
\* match that is still to be played
C6_Witness ==
    /\ logs # <<>>
    /\ \E i \in DOMAIN matches :
           /\ matches[i].status = "NOT_STARTED"
           /\ editingMatchId = matches[i].id
           /\ resultForm # FormOf(matches[i])

(***************************************************************************)
(* C7: all-out rule.  In both regimes a side with wickets = 10 is credited *)
(* with the full overs limit of the match (100 in the ball-count regime)   *)
(* as its faced volume and as the opponent's bowled volume, whatever overs *)
(* and balls are recorded for it.                                          *)
(***************************************************************************)
FullVolume == IF Traditional THEN maxOvers(config) ELSE 100 * VolScale

C7_AllOutRule ==
    [][GainsCounted =>
        /\ Gained.t1Wickets = Num(10) =>
              /\ Delta(Gained.team1Id, "oversFaced") = FullVolume
              /\ Delta(Gained.team2Id, "oversBowled") = FullVolume
        /\ Gained.t2Wickets = Num(10) =>
              /\ Delta(Gained.team2Id, "oversFaced") = FullVolume
              /\ Delta(Gained.team1Id, "oversBowled") = FullVolume]_vars

\* the only counted match has an all-out first side whose recorded overs are
\* below the limit, and that side stands at the full volume
C7_Witness ==
    /\ Counted = {Len(matches)}
    /\ LastMatch.t1Wickets = Num(10)
    /\ LastMatch.t1OversWhole = Num(1)
    /\ standingsMap[LastMatch.team1Id].oversFaced = FullVolume
    /\ standingsMap[LastMatch.team2Id].oversBowled = FullVolume
    /\ FullVolume > 1 * VolScale

(***************************************************************************)
(* C8: for a side with wickets < 10 the volume is wholeOvers + balls/6 in  *)
(* the traditional regime and wholeOvers (balls ignored, no division) in   *)
(* the ball-count regime; a missing overs or balls field counts as 0.      *)
(***************************************************************************)
FieldOrZero(x) == IF x = Undef THEN 0 ELSE x[1]

\* in units of 1/VolScale over: one ball is VolScale/6 units
RecordedVolume(oversWhole, balls) ==
    IF Traditional
    THEN FieldOrZero(oversWhole) * VolScale + (FieldOrZero(balls) * VolScale) \div 6
    ELSE FieldOrZero(oversWhole) * VolScale

Below10(w) == w # Undef /\ w[1] < 10

C8_RecordedVolume ==
    [][GainsCounted =>
        /\ Below10(Gained.t1Wickets) =>
              Delta(Gained.team1Id, "oversFaced")
                  = RecordedVolume(Gained.t1OversWhole, Gained.t1Balls)
        /\ Below10(Gained.t2Wickets) =>
              Delta(Gained.team2Id, "oversFaced")
                  = RecordedVolume(Gained.t2OversWhole, Gained.t2Balls)]_vars

\* a side with 1 over and 5 balls stands at 1 + 5/6 overs (traditional) or at
\* 1 (ball-count), and a side without an overs field stands at its balls only
C8_Witness ==
    /\ Counted = {Len(matches)}
    /\ \/ /\ LastMatch.t1Wickets = Num(3) /\ LastMatch.t1Balls = Num(5)
          /\ standingsMap[LastMatch.team1Id].oversFaced
                 = IF Traditional THEN (11 * VolScale) \div 6 ELSE VolScale
       \/ /\ LastMatch.t2Wickets = Num(9) /\ LastMatch.t2OversWhole = Undef
          /\ standingsMap[LastMatch.team2Id].oversFaced
                 = IF Traditional THEN (4 * VolScale) \div 6 ELSE 0

(***************************************************************************)
(* C9: cross-credit.  For a completed match between known teams, each      *)
(* side's runs and faced volume go to its own scored/faced totals and to   *)
(* the opponent's conceded/bowled totals, and the wickets a side lost go   *)
(* to the opponent's wickets-taken total, never to its own.                *)
(***************************************************************************)
C9_CrossCredit ==
    [][GainsCounted =>
        LET a == Gained.team1Id
            b == Gained.team2Id
        IN  /\ Delta(a, "runsScored") = FieldOrZero(Gained.t1Runs)
            /\ Delta(b, "runsConceded") = FieldOrZero(Gained.t1Runs)
            /\ Delta(b, "runsScored") = FieldOrZero(Gained.t2Runs)
            /\ Delta(a, "runsConceded") = FieldOrZero(Gained.t2Runs)
            /\ Delta(b, "oversBowled") = Delta(a, "oversFaced")
            /\ Delta(a, "oversBowled") = Delta(b, "oversFaced")
            /\ Delta(b, "wicketsTaken") = FieldOrZero(Gained.t1Wickets)
            /\ Delta(a, "wicketsTaken") = FieldOrZero(Gained.t2Wickets)]_vars

\* the only counted match has sides that differ in runs, wickets and volume
C9_Witness ==
    /\ Counted = {Len(matches)}
    /\ LastMatch.t1Runs = Num(2) /\ LastMatch.t2Runs = Num(1)
    /\ LastMatch.t1Wickets = Num(3) /\ LastMatch.t2Wickets = Num(10)
    /\ standingsMap[LastMatch.team1Id].wicketsTaken = 10
    /\ standingsMap[LastMatch.team2Id].wicketsTaken = 3
    /\ standingsMap[LastMatch.team1Id].runsConceded = 1
    /\ standingsMap[LastMatch.team2Id].runsConceded = 2
    /\ standingsMap[LastMatch.team1Id].oversFaced
           # standingsMap[LastMatch.team2Id].oversFaced

(***************************************************************************)
(* C10: a completed match that names a team id missing from the team list  *)
(* (on either side) is skipped: no counter, points or rate of any team,    *)
(* the known team of that match included, changes because of it, and the   *)
(* computation yields a standing for every team.                           *)
(***************************************************************************)
C10_UnknownTeamSkipped ==
    [][Gains /\ Gained.status = "COMPLETED"
       /\ (Gained.team1Id \notin TeamIds(teams) \/ Gained.team2Id \notin TeamIds(teams))
       => /\ standingsMap' = standingsMap
          /\ standings' = standings
          /\ DOMAIN standingsMap' = TeamIds(teams)]_vars

\* completed matches with a dangling first side and with a dangling second
\* side are in the list, and no team has played
C10_Witness ==
    /\ \E i \in DOMAIN matches :
           /\ matches[i].status = "COMPLETED"
           /\ matches[i].team1Id \notin TeamIds(teams)
           /\ matches[i].team2Id \in TeamIds(teams)
    /\ \E i \in DOMAIN matches :
           /\ matches[i].status = "COMPLETED"
           /\ matches[i].team2Id \notin TeamIds(teams)
           /\ matches[i].team1Id \in TeamIds(teams)
           /\ matches[i].t1Runs # Undef
    /\ \A t \in TeamIds(teams) : standingsMap[t] = InitStats(TeamById(teams, t))

(***************************************************************************)
(* C11: the ranked output holds the standing of every team, ordered by     *)
(* points descending, then net run rate descending, then scoring rate      *)
(* descending; teams equal on all three keep the order of the team list.   *)
(***************************************************************************)
\* the position of a team in the team list
InputIndex(id) == CHOOSE i \in DOMAIN teams : teams[i].id = id

\* a - b > 0 for two rates
RateAbove(a, b) == a.n * b.d > b.n * a.d

\* a has to stand before b in the ranking
RanksBefore(a, b) ==
    \/ a.actualPoints > b.actualPoints
    \/ /\ a.actualPoints = b.actualPoints
       /\ \/ RateAbove(a.nrr, b.nrr)
          \/ /\ a.nrr = b.nrr
             /\ \/ RateAbove(a.scoringRate, b.scoringRate)
                \/ /\ a.scoringRate = b.scoringRate
                   /\ InputIndex(a.id) < InputIndex(b.id)

C11_RankingOrder ==
    /\ Len(standings) = Len(teams)
    /\ \A i \in DOMAIN standings : standings[i] = standingsMap[standings[i].id]
    /\ \A i, j \in DOMAIN standings : i < j => RanksBefore(standings[i], standings[j])

\* every level decides a pair: a team is ahead of another on scoring rate at
\* equal points and net run rate, a later team of the list is ahead of an
\* earlier one on net run rate at equal points, another on points, and a pair
\* is equal on all three
C11_Witness ==
    /\ \E i, j \in DOMAIN standings :
           /\ i < j
           /\ standings[i].actualPoints = standings[j].actualPoints
           /\ standings[i].nrr = standings[j].nrr
           /\ RateAbove(standings[i].scoringRate, standings[j].scoringRate)
    /\ \E i, j \in DOMAIN standings :
           /\ i < j /\ InputIndex(standings[i].id) > InputIndex(standings[j].id)
           /\ standings[i].actualPoints = standings[j].actualPoints
           /\ RateAbove(standings[i].nrr, standings[j].nrr)
    /\ \E i, j \in DOMAIN standings :
           /\ i < j /\ InputIndex(standings[i].id) > InputIndex(standings[j].id)
           /\ standings[i].actualPoints > standings[j].actualPoints
    /\ \E i, j \in DOMAIN standings :
           /\ i < j
           /\ standings[i].actualPoints = standings[j].actualPoints
           /\ standings[i].nrr = standings[j].nrr
           /\ standings[i].scoringRate = standings[j].scoringRate

(***************************************************************************)
(* C12: the standings hold exactly one entry per team of the team list,    *)
(* and a team without a completed match is in the ranked output with       *)
(* points, rates and all counters 0, whatever counter values its team      *)
(* record carries.                                                         *)
(***************************************************************************)
CounterFields ==
    {"matchesPlayed", "matchesWon", "matchesLost", "matchesDrawn", "matchesTie",
     "matchesNR", "totalPoints", "actualPoints", "runsScored", "oversFaced",
     "runsConceded", "oversBowled", "wicketsTaken"}

RateFields == {"nrr", "scoringRate", "economyRate"}

AllZero(s) ==
    /\ \A f \in CounterFields : s[f] = 0
    /\ \A f \in RateFields : s[f].n = 0

Unplayed(t) == \A i \in DOMAIN matches : matches[i].status = "COMPLETED" => ~Plays(i, t)

C12_EveryTeamOnce ==
    /\ DOMAIN standingsMap = TeamIds(teams)
    /\ \A t \in TeamIds(teams) :
           /\ Cardinality({i \in DOMAIN standings : standings[i].id = t}) = 1
           /\ standingsMap[t].id = t
           /\ Unplayed(t) =>
                  /\ AllZero(standingsMap[t])
                  /\ \E i \in DOMAIN standings : standings[i].id = t /\ AllZero(standings[i])

\* a team whose record carries counters above 0 has no completed match,
\* while other teams have played
C12_Witness ==
    /\ Counted # {}
    /\ \E t \in TeamIds(teams) :
           /\ Unplayed(t)
           /\ TeamById(teams, t).matchesPlayed > 0
           /\ TeamById(teams, t).runsScored > 0

(***************************************************************************)
(* C13: for every team, scoringRate = runsScored / oversFaced when         *)
(* oversFaced > 0 and 0 otherwise, economyRate = runsConceded /            *)
(* oversBowled when oversBowled > 0 and 0 otherwise, and netRunRate =      *)
(* scoringRate - economyRate; every rate is a defined number, also for a   *)
(* team that scored runs in no recorded volume.                            *)
(***************************************************************************)
\* the fraction q is runs per over, for a volume in units of 1/VolScale over
IsQuotient(q, runs, volume) ==
    IF volume > 0 THEN q.n * volume = runs * VolScale * q.d ELSE q.n = 0

Defined(q) == q.n \in Int /\ q.d \in Nat /\ q.d > 0

C13_Rates ==
    \A t \in TeamIds(teams) :
        LET s == standingsMap[t]
        IN  /\ Defined(s.scoringRate) /\ Defined(s.economyRate) /\ Defined(s.nrr)
            /\ IsQuotient(s.scoringRate, s.runsScored, s.oversFaced)
            /\ IsQuotient(s.economyRate, s.runsConceded, s.oversBowled)
            /\ s.nrr.n * s.scoringRate.d * s.economyRate.d
                   = (s.scoringRate.n * s.economyRate.d
                      - s.economyRate.n * s.scoringRate.d) * s.nrr.d

\* a team has runs and no faced volume, and a team has a scoring rate and an
\* economy rate above 0 that differ
C13_Witness ==
    /\ \E t \in TeamIds(teams) :
           /\ standingsMap[t].runsScored > 0
           /\ standingsMap[t].oversFaced = 0
           /\ standingsMap[t].scoringRate = Zero
    /\ \E t \in TeamIds(teams) :
           /\ standingsMap[t].scoringRate.n > 0
           /\ standingsMap[t].economyRate.n > 0
           /\ standingsMap[t].nrr.n < 0

(***************************************************************************)
(* C14: order-independence.  For every permutation of the match list the   *)
(* aggregated standing of every team, the volumes as the doubles the code  *)
(* holds included, and the ranked order are the same.                      *)
(***************************************************************************)
C14_OrderIndependent ==
    \A p \in Orderings(Len(matches)) :
        LET ms == Permuted(matches, p)
            smap == ComputeStandingsMap(teams, ms, config)
        IN  /\ smap = standingsMap
            /\ ComputeStandings(teams, smap) = standings
            /\ DoubleVolumes(teams, ms, config) = DoubleVolumes(teams, matches, config)

(***************************************************************************)
(* C15: after any sequence of generate-schedule, save-result, re-save of a *)
(* completed match and factory-reset, the standings are those of the       *)
(* current match list alone: a re-saved match counts once in matches       *)
(* played and with its latest result only, and after a reset every         *)
(* team's standing is zero.                                                *)
(***************************************************************************)
\* the sides of the counted matches a team takes
Sides(t) ==
    {<<i, 1>> : i \in {j \in Counted : matches[j].team1Id = t}}
    \cup {<<i, 2>> : i \in {j \in Counted : matches[j].team2Id = t}}

SidesWon(t) ==
    {s \in Sides(t) : matches[s[1]].resultType = (IF s[2] = 1 THEN "T1_WIN" ELSE "T2_WIN")}

\* the runs of a team in the first n matches of the list
RECURSIVE RunsInList(_, _)
RunsInList(t, n) ==
    IF n = 0 THEN 0
    ELSE RunsInList(t, n - 1)
         + (IF <<n, 1>> \in Sides(t) THEN FieldOrZero(matches[n].t1Runs) ELSE 0)
         + (IF <<n, 2>> \in Sides(t) THEN FieldOrZero(matches[n].t2Runs) ELSE 0)

OfCurrentList ==
    \A t \in TeamIds(teams) :
        /\ standingsMap[t].matchesPlayed = Cardinality(Sides(t))
        /\ standingsMap[t].matchesWon = Cardinality(SidesWon(t))
        /\ standingsMap[t].actualPoints =
               pointsConfig(config).win * Cardinality(SidesWon(t))
               + pointsConfig(config).draw
                     * Cardinality({s \in Sides(t) : NoWinner(s[1])})
               + pointsConfig(config).loss
                     * Cardinality({s \in Sides(t) \ SidesWon(t) : ~NoWinner(s[1])})
        /\ standingsMap[t].runsScored = RunsInList(t, Len(matches))

\* a transition that saves a result for a match that is completed already
ReSave ==
    /\ Len(logs') = Len(logs) + 1
    /\ logs'[1].action = "RESULT ENTERED: MATCH"
    /\ \E i \in DOMAIN matches :
           matches[i].id = logs'[1].arg /\ matches[i].status = "COMPLETED"

FactoryReset ==
    /\ Len(logs') = Len(logs) + 1
    /\ logs'[1].action = "FACTORY RESET EXECUTED"

C15_FromScratch ==
    [][/\ OfCurrentList'
       /\ ReSave => \A t \in TeamIds(teams) : Delta(t, "matchesPlayed") = 0
       /\ FactoryReset => \A t \in TeamIds(teams) : AllZero(standingsMap'[t])]_vars

\* a match between two teams has been saved twice and each of them stands
\* at one match played
C15_Witness ==
    /\ Len(logs) >= 2
    /\ logs[1].action = "RESULT ENTERED: MATCH"
    /\ logs[2] = logs[1]
    /\ \E i \in Counted :
           /\ matches[i].id = logs[1].arg
           /\ matches[i].team1Id # matches[i].team2Id
           /\ matches[i].resultType = "T1_WIN"
           /\ standingsMap[matches[i].team1Id].matchesPlayed = 1
           /\ standingsMap[matches[i].team1Id].runsScored = FieldOrZero(matches[i].t1Runs)

(***************************************************************************)
(* C16: result classification on save.  In every reachable state a         *)
(* completed match whose first side has more runs is a first-batting win   *)
(* with winner team1, one whose second side has more runs a                *)
(* second-batting win with winner team2, and one with equal runs a TIE     *)
(* with the winner unset.                                                  *)
(***************************************************************************)
C16_ResultAgreesWithRuns ==
    \A i \in DOMAIN matches :
        matches[i].status = "COMPLETED" =>
            LET m == matches[i]
                t1R == FieldOrZero(m.t1Runs)
                t2R == FieldOrZero(m.t2Runs)
            IN  /\ m.t1Runs # Undef /\ m.t2Runs # Undef
                /\ t1R > t2R => m.resultType = "T1_WIN" /\ m.winnerId = m.team1Id
                /\ t2R > t1R => m.resultType = "T2_WIN" /\ m.winnerId = m.team2Id
                /\ t1R = t2R => m.resultType = "TIE" /\ m.winnerId = NULL

\* one match is saved with equal runs and one with more runs of the second side
C16_Witness ==
    /\ \E i \in DOMAIN matches :
           /\ matches[i].status = "COMPLETED"
           /\ matches[i].t1Runs = matches[i].t2Runs
           /\ matches[i].resultType = "TIE"
    /\ \E i \in DOMAIN matches :
           /\ matches[i].status = "COMPLETED"
           /\ FieldOrZero(matches[i].t2Runs) > FieldOrZero(matches[i].t1Runs)
           /\ matches[i].winnerId = matches[i].team2Id
           /\ matches[i].team1Id # matches[i].team2Id

(***************************************************************************)
(* C17: a team is flagged as tied exactly when some other team in the      *)
(* standings has the same total points, whatever their net run rates and   *)
(* scoring rates.  As stated this fails for a team below the first four    *)
(* of the ranking, which the panel does not show; it holds for the teams   *)
(* among the first four.                                                   *)
(***************************************************************************)
SharesPoints(t) ==
    \E o \in TeamIds(teams) :
        o # t /\ standingsMap[o].actualPoints = standingsMap[t].actualPoints

Rank(t) == CHOOSE i \in DOMAIN standings : standings[i].id = t

Bowled == {t \in TeamIds(teams) : standingsMap[t].oversBowled > 0}

C18_BestEconomy ==
    LET best == bestEconomyTeam(standings)
    IN  IF Bowled = {} THEN best = NULL
        ELSE /\ best \in Bowled
             /\ \A t \in Bowled :
                    FracCmp(standingsMap[best].economyRate, standingsMap[t].economyRate) <= 0

\* teams that have not bowled stand at economy 0, below the economy of the
\* best-economy team, and two teams have bowled at different economies
C18_Witness ==
    /\ \E t \in TeamIds(teams) \ Bowled : standingsMap[t].economyRate = Zero
    /\ bestEconomyTeam(standings) \in Bowled
    /\ standingsMap[bestEconomyTeam(standings)].economyRate.n > 0
    /\ \E t \in Bowled :
           FracCmp(standingsMap[bestEconomyTeam(standings)].economyRate,
                   standingsMap[t].economyRate) < 0

(***************************************************************************)
(* C19: fixture generation for N teams (every N >= 2, even or odd) makes   *)
(* N-1 rounds of exactly floor(N/2) matches each, no team appears more     *)
(* than once in a round, and every generated match is NOT_STARTED.         *)
(***************************************************************************)
InRound(ms, r) == {i \in DOMAIN ms : ms[i].round = r}

TeamsOf(m) == {m.team1Id, m.team2Id}

RoundRobin(ms, n) ==
    /\ {ms[i].round : i \in DOMAIN ms} = 1..(n - 1)
    /\ \A r \in 1..(n - 1) :
           /\ Cardinality(InRound(ms, r)) = n \div 2
           /\ \A i \in InRound(ms, r) : ms[i].team1Id # ms[i].team2Id
           /\ \A i, j \in InRound(ms, r) : i # j => TeamsOf(ms[i]) \cap TeamsOf(ms[j]) = {}
    /\ \A i \in DOMAIN ms : ms[i].status = "NOT_STARTED"

C19_RoundRobinSchedule ==
    [][matches = <<>> /\ matches' # <<>> => RoundRobin(matches', Len(teams))]_vars

(***************************************************************************)
(* C20: in every state reachable through fixture generation and result     *)
(* entry, every completed match has team1 # team2: no team is paired       *)
(* against itself, for any team count the generator accepts.               *)
(***************************************************************************)
C20_NoSelfPairing ==
    \A i \in DOMAIN matches :
        matches[i].status = "COMPLETED" => matches[i].team1Id # matches[i].team2Id

(***************************************************************************)
(* C21: a match moves to COMPLETED exactly when a result with the score    *)
(* fields of both sides supplied is committed: no other operation          *)
(* completes a match, and a commit with score fields left unsupplied does  *)
(* not complete it.                                                        *)
(***************************************************************************)
Completes(i) ==
    /\ i \in DOMAIN matches'
    /\ matches[i].status # "COMPLETED"
    /\ matches'[i].status = "COMPLETED"

\* the runs of both sides are in the form (the least a supplied score is)
Supplied(form) == form.t1Runs # <<>> /\ form.t2Runs # <<>>

C21_CompletedOnlyWithScores ==
    [][\A i \in DOMAIN matches :
           Completes(i) => editingMatchId = matches[i].id /\ Supplied(resultForm)]_vars

(***************************************************************************)
(* C22: after any sequence of form edits followed by a save, the stored    *)
(* wickets of each side are in [0, 10], the stored runs in [0, 9999] and   *)
(* the stored whole overs in [0, limit], where the limit is the overs of   *)
(* a match (100 in the ball-count regime), whatever values were typed.     *)
(***************************************************************************)
Within(x, lo, hi) == x # Undef /\ lo <= x[1] /\ x[1] <= hi

C22_StoredWithinRange ==
    \A i \in DOMAIN matches :
        matches[i].status = "COMPLETED" =>
            /\ Within(matches[i].t1Runs, 0, 9999) /\ Within(matches[i].t2Runs, 0, 9999)
            /\ Within(matches[i].t1Wickets, 0, 10) /\ Within(matches[i].t2Wickets, 0, 10)
            /\ Within(matches[i].t1OversWhole, 0, OversLimit(config))
            /\ Within(matches[i].t2OversWhole, 0, OversLimit(config))

\* a saved match whose form had a typed value above its range in two fields
C22_Witness ==
    \E i \in DOMAIN matches :
        /\ matches[i].status = "COMPLETED"
        /\ \/ matches[i].t1Runs = Num(9999) /\ matches[i].t2Wickets = Num(10)
           \/ matches[i].t1Wickets = Num(10) /\ matches[i].t1OversWhole = Num(OversLimit(config))
           \/ matches[i].t2Runs = Num(9999) /\ matches[i].t2OversWhole = Num(OversLimit(config))

(***************************************************************************)
(* C23: a tournament is deleted only when the typed name equals the name   *)
(* of the tournament whose delete was requested, and a factory reset or a  *)
(* lock toggle happens only when the typed name matches the name of the    *)
(* tournament; on a mismatch the list or the record is unchanged and the   *)
(* confirmation stays open.                                                *)
(***************************************************************************)
Emptied == matches # <<>> /\ matches' = <<>>

C23_ConfirmedByName ==
    [][/\ tournaments' # tournaments =>
              /\ ~DialogClosed
              /\ confirmName = tournaments[Requested].name
              /\ tournaments' = Without(deleteConfirmId)
       /\ Emptied \/ isLocked' # isLocked =>
              showSecurityModal # NULL /\ ~Mismatch(securityInput)
       /\ finalizeDelete /\ confirmName # tournaments[Requested].name =>
              UNCHANGED <<tournaments, deleteConfirmId>>
       /\ ConfirmSecurity /\ Mismatch(securityInput) =>
              UNCHANGED <<tournVars, showSecurityModal>>]_vars

\* one tournament is deleted and the dialog is open on another with a wrong
\* name typed; the lock is set and the modal is open with a wrong name typed
C23_Witness ==
    /\ Len(tournaments) < MaxListed
    /\ ~DialogClosed /\ confirmName # <<>> /\ confirmName # tournaments[Requested].name
    /\ isLocked /\ matches # <<>>
    /\ showSecurityModal = "RESET" /\ securityInput # <<>> /\ Mismatch(securityInput)

(***************************************************************************)
(* C25: while the tournament is locked, no workspace operation changes     *)
(* the match list: result save, fixture generation and factory reset all   *)
(* leave the matches as they are until the tournament is unlocked.         *)
(***************************************************************************)
C25_LockedKeepsMatches ==
    [][isLocked => matches' = matches]_vars

(***************************************************************************)
(* C26: summed over all teams, the runs scored equal the runs conceded,    *)
(* the overs faced equal the overs bowled, and the matches played are      *)
(* twice the number of aggregated matches.  The volumes are compared both  *)
(* as exact quantities and as the doubles the code stores.                 *)
(***************************************************************************)
\* the sum of a counter of standingsMap over the teams
Total(f) ==
    LET F[k \in 0..Len(teams)] ==
            IF k = 0 THEN 0 ELSE F[k - 1] + standingsMap[teams[k].id][f]
    IN  F[Len(teams)]

\* the exact sum over the teams of the doubles in oversFaced or oversBowled,
\* as the pair of the sums of their two parts
DoubleTotal(f) ==
    LET vols == DoubleVolumes(teams, matches, config)
        F[k \in 0..Len(teams)] ==
            IF k = 0 THEN [k |-> 0, e |-> 0]
            ELSE [k |-> F[k - 1].k + vols[teams[k].id][f].k,
                  e |-> F[k - 1].e + vols[teams[k].id][f].e]
    IN  F[Len(teams)]

C26_Conservation ==
    /\ Total("runsScored") = Total("runsConceded")
    /\ Total("oversFaced") = Total("oversBowled")
    /\ DoubleTotal("oversFaced") = DoubleTotal("oversBowled")
    /\ Total("matchesPlayed") = 2 * Cardinality(Counted)

(***************************************************************************)
(* C27: for every completed match entered through the result form, the     *)
(* volume credited to each side never exceeds the overs limit of a match.  *)
(***************************************************************************)
C27_VolumeWithinLimit ==
    \A i \in DOMAIN matches :
        matches[i].status = "COMPLETED" =>
            /\ VolFaced(config, matches[i].t1Wickets, matches[i].t1OversWhole,
                        matches[i].t1Balls) <= maxOvers(config)
            /\ VolFaced(config, matches[i].t2Wickets, matches[i].t2OversWhole,
                        matches[i].t2Balls) <= maxOvers(config)

(***************************************************************************)
(* C28: after a confirmed factory reset the match list is empty and the    *)
(* audit log contains only the reset entry.                                *)
(***************************************************************************)
\* the step of the CONFIRM button of the reset modal with the name typed
ResetConfirmed ==
    /\ showSecurityModal = "RESET" /\ ~Mismatch(securityInput)
    /\ showSecurityModal' = NULL /\ logs' # logs

C28_ResetLeavesOneEntry ==
    [][ResetConfirmed =>
          /\ matches' = <<>>
          /\ logs' = <<LogEntry("FACTORY RESET EXECUTED", <<>>)>>]_vars

(***************************************************************************)
(* C29: for every completed match and every result type (T1_WIN, T2_WIN,   *)
(* TIE, DRAW, NO_RESULT, ABANDONED), the points shown for each side on the *)
(* result card equal the points the aggregator adds to that side.          *)
(***************************************************************************)
\* EARNED: {t1Earned} PTS of the card of match m
t1Earned(m, cfg) ==
    LET pc == pointsConfig(cfg)
    IN  IF m.resultType = "T1_WIN" THEN pc.win
        ELSE IF m.resultType = "TIE" THEN pc.draw ELSE pc.loss

\* EARNED: {t2Earned} PTS of the card of match m
t2Earned(m, cfg) ==
    LET pc == pointsConfig(cfg)
    IN  IF m.resultType = "T2_WIN" THEN pc.win
        ELSE IF m.resultType = "TIE" THEN pc.draw ELSE pc.loss

C29_CardShowsAggregatedPoints ==
    [][GainsCounted /\ Gained.resultType \in ResultTypes =>
          /\ Delta(Gained.team1Id, "actualPoints") = t1Earned(Gained, config)
          /\ Delta(Gained.team2Id, "actualPoints") = t2Earned(Gained, config)]_vars

(***************************************************************************)
(* C30: for an even number N of teams the generated schedule is a complete *)
(* single round-robin: every unordered pair of distinct teams meets in     *)
(* exactly one match, the total is N(N-1)/2 matches, and the match ids are *)
(* pairwise distinct.                                                      *)
(***************************************************************************)
Meetings(a, b) == {i \in DOMAIN matches : TeamsOf(matches[i]) = {a, b}}

C30_CompleteRoundRobin ==
    matches # <<>> /\ Len(teams) % 2 = 0 =>
        /\ \A a, b \in TeamIds(teams) : a # b => Cardinality(Meetings(a, b)) = 1
        /\ Len(matches) = SingleRoundRobin(Len(teams))
        /\ \A i, j \in DOMAIN matches : i # j => matches[i].id # matches[j].id

\* the schedule of four or more teams is generated
C30_Witness ==
    /\ Len(teams) % 2 = 0 /\ Len(teams) >= 4
    /\ matches # <<>>
    /\ \A i \in DOMAIN matches : matches[i].status = "NOT_STARTED"

====
